---------------------------- MODULE Spec2Model ----------------------------
(***************************************************************************)
(* A model of src/src/EntityMongoDB.js: the entity <-> document mapping    *)
(* (toDoc / fromDoc), the CRUD and upsert operations over a store handle,  *)
(* and the reference embedder (embedAsReference).                          *)
(*                                                                         *)
(* JavaScript values are tagged records, [t |-> tag] and one payload field *)
(* named after the type, so values of different types compare unequal:     *)
(*   undefined, null, strings, ObjectIds, arrays and plain objects.        *)
(* An object's payload is a function from its own keys to values, so a key *)
(* that is present with the value undefined differs from an absent key.    *)
(*                                                                         *)
(* Three specifications share the module: SpecMap runs toDoc then fromDoc  *)
(* on every modelled record, Spec runs the CRUD operations against one     *)
(* collection (each call is one step: the claims checked are about the     *)
(* calls a single operation makes, not about interleavings), and SpecEmbed *)
(* runs one embedAsReference call with its lookups completing in any       *)
(* order.                                                                  *)
(***************************************************************************)
EXTENDS Integers, Sequences, FiniteSets, TLC

\* ------------------------------------------------------------------ bounds
\* Longest array of identifiers held by a reference field.
MaxRefs == 2
\* Longest sequence of records handed to the reference embedder.
MaxRecs == 2

\* ------------------------------------------------------------------ values
Undef == [t |-> "undef"]
Null == [t |-> "null"]
Str(s) == [t |-> "str", s |-> s]
Oid(h) == [t |-> "oid", hex |-> h]
Arr(s) == [t |-> "arr", seq |-> s]
Obj(f) == [t |-> "obj", map |-> f]
Throw(kind) == [t |-> "throw", kind |-> kind]
EmptyMap == [k \in {} |-> Undef]

IsThrow(x) == x.t = "throw"
IsArray(x) == x.t = "arr"
IsObj(x) == x.t = "obj"
IsUndefined(x) == x = Undef

\* JavaScript truthiness of the values modelled: undefined, null and ""
\* are falsy, everything else (an empty array or object included) is truthy.
Truthy(x) == ~(x.t \in {"undef", "null"}) /\ ~(x.t = "str" /\ x.s = "")

\* The 24-hex strings that name an identifier.
IdStrings == {"i1", "i2"}
\* The hex of an identifier the driver generates itself.
GenHex == "gen"

Keys(o) == DOMAIN o.map
Has(o, k) == IsObj(o) /\ k \in DOMAIN o.map
\* o[k]: undefined when o is no object or has no such key.
Prop(o, k) == IF Has(o, k) THEN o.map[k] ELSE Undef
\* {...o, [k]: x}
With(o, k, x) == Obj([j \in Keys(o) \cup {k} |-> IF j = k THEN x ELSE o.map[j]])
\* {...a, ...b}: b wins on every key both hold.
Spread(a, b) ==
    Obj([j \in Keys(a) \cup Keys(b) |-> IF j \in Keys(b) THEN b.map[j] ELSE a.map[j]])
\* _.omitBy(_.isUndefined, o): top-level keys only.
OmitUndefined(o) ==
    Obj([j \in {k \in Keys(o) : ~IsUndefined(o.map[k])} |-> o.map[j]])

\* _.get(path, o), path a sequence of keys.
RECURSIVE Get(_, _)
Get(path, o) ==
    IF path = <<>> THEN o
    ELSE IF Has(o, Head(path)) THEN Get(Tail(path), o.map[Head(path)])
    ELSE Undef

\* _.has(path, o): the key at the end of the path exists.
RECURSIVE HasPath(_, _)
HasPath(path, o) ==
    IF path = <<>> THEN FALSE
    ELSE IF Len(path) = 1 THEN Has(o, Head(path))
    ELSE Has(o, Head(path)) /\ HasPath(Tail(path), o.map[Head(path)])

\* _.set(path, x, o) of lodash/fp: a new object, o itself is not changed.
RECURSIVE Set(_, _, _)
Set(path, x, o) ==
    LET base == IF IsObj(o) THEN o ELSE Obj(EmptyMap)
    IN  IF Len(path) = 1 THEN With(base, Head(path), x)
        ELSE With(base, Head(path), Set(Tail(path), x, Prop(base, Head(path))))

\* monk.id(x): a fresh ObjectId for null / undefined, the ObjectId of a
\* 24-hex string (anything else throws), every other value as it is.
MonkId(x) ==
    IF x.t \in {"undef", "null"} THEN Oid(GenHex)
    ELSE IF x.t = "str"
         THEN IF x.s \in IdStrings THEN Oid(x.s) ELSE Throw("invalid-id")
         ELSE x

\* x.toString() of the values a document holds at an identifier path.
toString(x) ==
    IF x.t = "oid" THEN Str(x.hex)
    ELSE IF x.t = "str" THEN x
    ELSE Str("[object]")

\* value.map(f) with the throw of any element propagated.
MapThrow(s) ==
    IF \E i \in 1..Len(s) : IsThrow(s[i])
    THEN Throw("invalid-id")
    ELSE Arr(s)

\* ------------------------------------------------------------------ mapping
\* One step of toDoc's reduce over the paths.
toDocStep(acc, path) ==
    IF IsThrow(acc) THEN acc
    ELSE LET value == Get(path, acc)
         IN  IF ~Truthy(value) THEN acc
             ELSE LET castValue ==
                          IF IsArray(value)
                          THEN MapThrow([i \in 1..Len(value.seq) |-> MonkId(value.seq[i])])
                          ELSE MonkId(value)
                  IN  IF IsThrow(castValue) THEN castValue
                      ELSE Set(path, castValue, acc)

RECURSIVE toDocReduce(_, _)
toDocReduce(acc, paths) ==
    IF paths = <<>> THEN acc
    ELSE toDocReduce(toDocStep(acc, Head(paths)), Tail(paths))

\* { _id: entity.id ? monk.id(entity.id) : undefined, ...entity, id: undefined }
toDocSeed(entity) ==
    LET key == IF Truthy(Prop(entity, "id")) THEN MonkId(Prop(entity, "id")) ELSE Undef
    IN  IF IsThrow(key) THEN key
        ELSE With(Spread(Obj([k \in {"_id"} |-> key]), entity), "id", Undef)

toDoc(entity, paths) ==
    LET seed == toDocSeed(entity)
        red == IF IsThrow(seed) THEN seed ELSE toDocReduce(seed, paths)
    IN  IF IsThrow(red) THEN red ELSE OmitUndefined(red)

\* One step of fromDoc's reduce over the paths.
fromDocStep(acc, path) ==
    LET value == Get(path, acc)
    IN  IF ~Truthy(value) THEN acc
        ELSE LET castValue ==
                     IF IsArray(value)
                     THEN Arr([i \in 1..Len(value.seq) |-> toString(value.seq[i])])
                     ELSE toString(value)
             IN  Set(path, castValue, acc)

RECURSIVE fromDocReduce(_, _)
fromDocReduce(acc, paths) ==
    IF paths = <<>> THEN acc
    ELSE fromDocReduce(fromDocStep(acc, Head(paths)), Tail(paths))

\* { id: doc._id ? doc._id.toString() : undefined, ...doc, _id: undefined }
fromDocSeed(doc) ==
    LET id == IF Truthy(Prop(doc, "_id")) THEN toString(Prop(doc, "_id")) ELSE Undef
    IN  With(Spread(Obj([k \in {"id"} |-> id]), doc), "_id", Undef)

\* A fromDoc that forgets to convert the identifier paths.
fromDocNoPaths(doc, paths) == OmitUndefined(fromDocSeed(doc))

fromDoc(doc, paths) == OmitUndefined(fromDocReduce(fromDocSeed(doc), paths))

\* ------------------------------------------------------------------ store
None == [t |-> "none"]
Ack(n) == [t |-> "ack", n |-> n]

\* One call the operation made on a collaborator: a store call (its query
\* and body) or a validator call (body: the props validated, ok: its verdict).
Call(fn, query, body, ok) == [fn |-> fn, query |-> query, body |-> body, ok |-> ok]
StoreFns == {"find", "findOne", "insert", "update", "remove"}
StoreCalls(log) == {i \in 1..Len(log) : log[i].fn \in StoreFns}

\* What an operation leaves: the collection, the calls it made, its result
\* (Throw(kind) when it failed) and the operation it delegated to, if any.
Outcome(st, log, result, via) == [store |-> st, log |-> log, result |-> result, via |-> via]

ById(key) == Obj([k \in {"_id"} |-> key])

\* dbCollection.findOne({_id: key}): the document, or null.
storeFindOne(st, key) == IF key.hex \in DOMAIN st THEN st[key.hex] ELSE Null

\* dbCollection.insert(doc): the store names a document that has no _id;
\* a second document with the same _id is refused.
storeInsert(st, docProps, gen) ==
    LET d == IF Has(docProps, "_id") THEN docProps ELSE With(docProps, "_id", Oid(gen))
        h == d.map["_id"].hex
    IN  IF h \in DOMAIN st
        THEN [store |-> st, doc |-> Throw("store")]
        ELSE [store |-> [j \in DOMAIN st \cup {h} |-> IF j = h THEN d ELSE st[j]],
              doc |-> d]

\* dbCollection.update({_id: key}, spec): a $set merges the fields into the
\* matched document, a plain document replaces it (the _id is kept).
storeUpdate(st, key, spec) ==
    IF key.hex \notin DOMAIN st THEN st
    ELSE LET new == IF Has(spec, "$set")
                    THEN Spread(st[key.hex], spec.map["$set"])
                    ELSE With(spec, "_id", key)
         IN  [st EXCEPT ![key.hex] = new]

\* dbCollection.remove({_id: key})
storeRemove(st, key) ==
    [store |-> [j \in DOMAIN st \ {key.hex} |-> st[j]],
     ack |-> Ack(IF key.hex \in DOMAIN st THEN 1 ELSE 0)]

\* ------------------------------------------------------------- descriptor
\* The entity-type descriptor the operations are bound to.
idPaths == <<<<"ownerId">>>>
DeclaredFields == {"id", "name", "ownerId"}
EntityToDoc(props) == toDoc(props, idPaths)
EntityFromDoc(d) == fromDoc(d, idPaths)
\* Entity.clean: strips the fields the schema does not declare.
clean(props) == Obj([k \in Keys(props) \cap DeclaredFields |-> props.map[k]])
\* Sert.string(value, message): passes on a non-empty string.
SertString(x) == x.t = "str" /\ x.s # ""
\* A parameter default: `props = {}` applies when the argument is undefined.
Default(x) == IF x = Undef THEN Obj(EmptyMap) ELSE x
FakeId == "1234567890abcdef12345678"

\* ------------------------------------------------------------------ CRUD
findOne(st, key) ==
    LET d == storeFindOne(st, key)
    IN  IF Truthy(d) THEN EntityFromDoc(d) ELSE Undef

findById(st, id) ==
    LET key == MonkId(id)
    IN  IF IsThrow(key) THEN Outcome(st, <<>>, key, None)
        ELSE Outcome(st, <<Call("findOne", ById(key), None, TRUE)>>, findOne(st, key), None)

\* The hex keys of the collection in the order a query returns its documents.
StoreOrder == <<"i1", "i2">>
InStore(st, keys) ==
    SelectSeq(StoreOrder, LAMBDA h : h \in DOMAIN st /\ Oid(h) \in keys)

findByIds(st, ids) ==
    LET keys == MapThrow([i \in 1..Len(ids.seq) |-> MonkId(ids.seq[i])])
        query == Obj([k \in {"_id"} |-> Obj([j \in {"$in"} |-> keys])])
        found == InStore(st, {keys.seq[i] : i \in 1..Len(keys.seq)})
    IN  IF IsThrow(keys) THEN Outcome(st, <<>>, keys, None)
        ELSE Outcome(st, <<Call("find", query, None, TRUE)>>,
                     Arr([i \in 1..Len(found) |-> EntityFromDoc(st[found[i]])]), None)

\* A createOne that writes first and validates afterwards.
createOneInsertFirst(st, props0, ok, gen) ==
    LET cleanProps == clean(Default(props0))
        vcall == Call("assertValid", None, With(cleanProps, "id", Str(FakeId)), ok)
        docProps == EntityToDoc(cleanProps)
        ins == storeInsert(st, docProps, gen)
        icall == Call("insert", None, docProps, TRUE)
    IN  IF IsThrow(docProps) THEN Outcome(st, <<>>, docProps, None)
        ELSE IF IsThrow(ins.doc) THEN Outcome(st, <<icall>>, ins.doc, None)
        ELSE IF ~ok THEN Outcome(ins.store, <<icall, vcall>>, Throw("validation"), None)
        ELSE Outcome(ins.store, <<icall, vcall>>, EntityFromDoc(ins.doc), None)

createOne(st, props0, ok, gen) ==
    LET cleanProps == clean(Default(props0))
        vcall == Call("assertValid", None, With(cleanProps, "id", Str(FakeId)), ok)
        docProps == EntityToDoc(cleanProps)
        ins == storeInsert(st, docProps, gen)
        icall == Call("insert", None, docProps, TRUE)
    IN  IF ~ok THEN Outcome(st, <<vcall>>, Throw("validation"), None)
        ELSE IF IsThrow(docProps) THEN Outcome(st, <<vcall>>, docProps, None)
        ELSE IF IsThrow(ins.doc) THEN Outcome(st, <<vcall, icall>>, ins.doc, None)
        ELSE Outcome(ins.store, <<vcall, icall>>, EntityFromDoc(ins.doc), None)

updateOne(st, props0, ok) ==
    LET cleanProps == clean(Default(props0))
        vcall == Call("assertValidPartial", None, cleanProps, ok)
        key == MonkId(Prop(cleanProps, "id"))
        query == ById(key)
        mapped == EntityToDoc(cleanProps)
        updates == Obj([k \in {"$set"} |-> OmitUndefined(With(mapped, "id", Undef))])
        after == storeUpdate(st, key, updates)
    IN  IF ~SertString(Prop(cleanProps, "id"))
        THEN Outcome(st, <<>>, Throw("missing-id"), None)
        ELSE IF ~ok THEN Outcome(st, <<vcall>>, Throw("validation"), None)
        ELSE IF IsThrow(key) THEN Outcome(st, <<vcall>>, key, None)
        ELSE IF IsThrow(mapped) THEN Outcome(st, <<vcall>>, mapped, None)
        ELSE Outcome(after,
                     <<vcall, Call("update", query, updates, TRUE),
                       Call("findOne", query, None, TRUE)>>,
                     findOne(after, key), None)

replaceOne(st, props0, ok) ==
    LET cleanProps == clean(Default(props0))
        vcall == Call("assertValid", None, cleanProps, ok)
        key == MonkId(Prop(cleanProps, "id"))
        query == ById(key)
        mapped == EntityToDoc(cleanProps)
        after == storeUpdate(st, key, mapped)
    IN  IF ~SertString(Prop(cleanProps, "id"))
        THEN Outcome(st, <<>>, Throw("missing-id"), None)
        ELSE IF ~ok THEN Outcome(st, <<vcall>>, Throw("validation"), None)
        ELSE IF IsThrow(key) THEN Outcome(st, <<vcall>>, key, None)
        ELSE IF IsThrow(mapped) THEN Outcome(st, <<vcall>>, mapped, None)
        ELSE Outcome(after,
                     <<vcall, Call("update", query, mapped, TRUE),
                       Call("findOne", query, None, TRUE)>>,
                     findOne(after, key), None)

\* An upsertOne whose insert-only props win over the update props.
upsertOneInsertWins(st, existing0, updateProps0, insertOnlyProps0, ok, gen) ==
    LET existing == Default(existing0)
        updateProps == Default(updateProps0)
        insertOnlyProps == Default(insertOnlyProps0)
    IN  IF Prop(existing, "id") # Undef
        THEN IF Keys(updateProps) = {}
             THEN Outcome(st, <<>>, existing, None)
             ELSE LET props == With(updateProps, "id", Prop(existing, "id"))
                      o == updateOne(st, props, ok)
                  IN  Outcome(o.store, o.log, o.result, Call("updateOne", None, props, TRUE))
        ELSE LET props == Spread(updateProps, insertOnlyProps)
                 o == createOne(st, props, ok, gen)
             IN  Outcome(o.store, o.log, o.result, Call("createOne", None, props, TRUE))

upsertOne(st, existing0, updateProps0, insertOnlyProps0, ok, gen) ==
    LET existing == Default(existing0)
        updateProps == Default(updateProps0)
        insertOnlyProps == Default(insertOnlyProps0)
    IN  IF Prop(existing, "id") # Undef
        THEN IF Keys(updateProps) = {}
             THEN Outcome(st, <<>>, existing, None)
             ELSE LET props == With(updateProps, "id", Prop(existing, "id"))
                      o == updateOne(st, props, ok)
                  IN  Outcome(o.store, o.log, o.result, Call("updateOne", None, props, TRUE))
        ELSE LET props == Spread(insertOnlyProps, updateProps)
                 o == createOne(st, props, ok, gen)
             IN  Outcome(o.store, o.log, o.result, Call("createOne", None, props, TRUE))

\* upsertOnePF(updateProps, insertOnlyProps)(existing)
upsertOnePF(st, updateProps0, insertOnlyProps0, existing0, ok, gen) ==
    upsertOne(st, Default(existing0), Default(updateProps0), Default(insertOnlyProps0), ok, gen)

\* A deleteOne that, like deleteById, does not look at the identifier first.
deleteOneUnchecked(st, props0) ==
    LET key == MonkId(Prop(Default(props0), "id"))
        rem == storeRemove(st, key)
    IN  IF IsThrow(key) THEN Outcome(st, <<>>, key, None)
        ELSE Outcome(rem.store, <<Call("remove", ById(key), None, TRUE)>>, rem.ack, None)

deleteOne(st, props0) ==
    LET props == Default(props0)
        key == MonkId(Prop(props, "id"))
        rem == storeRemove(st, key)
    IN  IF ~SertString(Prop(props, "id"))
        THEN Outcome(st, <<>>, Throw("missing-id"), None)
        ELSE IF IsThrow(key) THEN Outcome(st, <<>>, key, None)
        ELSE Outcome(rem.store, <<Call("remove", ById(key), None, TRUE)>>, rem.ack, None)

deleteById(st, id) ==
    LET key == MonkId(id)
        rem == storeRemove(st, key)
    IN  IF IsThrow(key) THEN Outcome(st, <<>>, key, None)
        ELSE Outcome(rem.store, <<Call("remove", ById(key), None, TRUE)>>, rem.ack, None)

\* ------------------------------------------------------------------ embed
Path(p) == [t |-> "path", path |-> p]
\* One record's place in Promise.all: st is "plain" (no reference, the
\* record itself), "pending", "resolved" or "rejected".
Slot(rec, st, got, val) == [rec |-> rec, st |-> st, got |-> got, val |-> val]

\* The early return: objectPath && !_.has(objectPath, target)
NoObjectPathBypass(objectPath, target) == FALSE
NothingAtObjectPath(objectPath, target) ==
    Truthy(objectPath) /\ ~HasPath(objectPath.path, target)

\* _.get(objectPath, target) || target
deepTargetOf(objectPath, target) ==
    LET at == IF objectPath.t = "path" THEN Get(objectPath.path, target) ELSE Undef
    IN  IF Truthy(at) THEN at ELSE target

\* _.castArray(x)
castArray(x) == IF IsArray(x) THEN x.seq ELSE <<x>>

\* The key of _embedded: embedName || referencePath
embedKey(embedName, referencePath) ==
    IF Truthy(embedName) THEN embedName.s ELSE referencePath[1]

\* A record whose _embedded is replaced, not merged.
embedReplacing(rec, name, embeds) ==
    With(rec, "_embedded", Obj([k \in {name} |-> embeds]))

\* { ...deepTarget, _embedded: { ...(deepTarget._embedded || {}), [name]: embeds } }
embedInto(rec, name, embeds) ==
    LET old == IF Truthy(Prop(rec, "_embedded")) THEN Prop(rec, "_embedded") ELSE Obj(EmptyMap)
    IN  With(rec, "_embedded", With(old, name, embeds))

\* The lookup of one reference: Entity.findByIds for an array, else Entity.findById.
lookupFn(reference) == IF IsArray(reference) THEN "findByIds" ELSE "findById"
lookup(st, reference) ==
    IF IsArray(reference) THEN findByIds(st, reference).result
    ELSE findById(st, reference).result

\* The synchronous start of every record's async callback.
startSlots(recs, referencePath) ==
    [i \in 1..Len(recs) |->
        IF Truthy(Get(referencePath, recs[i]))
        THEN Slot(recs[i], "pending", None, None)
        ELSE Slot(recs[i], "plain", None, recs[i])]

\* Promise.all is fulfilled once every promise is.
allFulfilled(slots) == \A i \in 1..Len(slots) : slots[i].st \in {"plain", "resolved"}
\* Promise.all is rejected as soon as one promise is.
anyRejected(slots) == \E i \in 1..Len(slots) : slots[i].st = "rejected"

\* The values of Promise.all, in the order the lookups completed.
valuesAsCompleted(slots, order) ==
    LET plain == SelectSeq([i \in 1..Len(slots) |-> i], LAMBDA i : slots[i].st = "plain")
        idx == order \o plain
    IN  [i \in 1..Len(idx) |-> slots[idx[i]].val]
\* The values of Promise.all: by position, whatever the completion order.
valuesOf(slots, order) == [i \in 1..Len(slots) |-> slots[i].val]

\* withEmbeds and ret
reassemble(target, objectPath, values) ==
    LET deepTarget == deepTargetOf(objectPath, target)
        withEmbeds == IF IsArray(deepTarget) THEN Arr(values) ELSE Head(values)
    IN  IF Truthy(objectPath) THEN Set(objectPath.path, withEmbeds, target) ELSE withEmbeds

\* ------------------------------------------------------------------ state
VARIABLES
    entity,     \* mapping: the record handed to toDoc
    paths,      \* mapping: the identifier path set
    doc,        \* mapping: toDoc's result
    back,       \* mapping: fromDoc's result on doc
    mpc,        \* mapping: "start", "mapped", "threw", "done" ("off": unused)
    op,         \* the operation called last
    args,       \* its arguments
    out,        \* what it left: the collection, its calls, its result
    target,         \* embed: the object holding the reference
    referencePath,  \* embed: path to the reference in each record
    embedName,      \* embed: name under _embedded, or null
    objectPath,     \* embed: path to the record(s) in target, or null
    slots,          \* embed: one Slot per record in scope
    lookups,        \* embed: the lookups issued, in order
    order,          \* embed: the records whose lookup completed, in order
    ret,            \* embed: what the call returned, Throw when rejected
    epc             \* embed: "idle", "waiting", "done", "rejected" ("off")

mapVars == <<entity, paths, doc, back, mpc>>
crudVars == <<op, args, out>>
embedVars == <<target, referencePath, embedName, objectPath, slots, lookups, order, ret, epc>>
vars == <<entity, paths, doc, back, mpc, op, args, out,
          target, referencePath, embedName, objectPath, slots, lookups, order, ret, epc>>

\* The collection: ObjectId hex -> document.
store == out.store
\* The collaborator calls the last operation made, in order.
log == out.log
\* What it returned, Throw(kind) when it failed.
result == out.result
\* The operation it delegated to (upsert), or None.
via == out.via

MapIdle ==
    /\ entity = None /\ paths = <<>> /\ doc = None /\ back = None /\ mpc = "off"
CrudIdle ==
    /\ op = "none" /\ args = <<>> /\ out = Outcome(<<>>, <<>>, None, None)
EmbedIdle ==
    /\ target = None /\ referencePath = <<>> /\ embedName = Null /\ objectPath = Null
    /\ slots = <<>> /\ lookups = <<>> /\ order = <<>> /\ ret = None /\ epc = "off"

\* Every sequence over S of length at most n.
SeqsUpTo(S, n) == UNION {[1..k -> S] : k \in 0..n}

\* Every object over the given key -> candidate-values map, a candidate of
\* None meaning that the key is absent.
ObjectsOver(cands) ==
    LET all == UNION {cands[k] : k \in DOMAIN cands}
        picks == {g \in [DOMAIN cands -> all] : \A k \in DOMAIN cands : g[k] \in cands[k]}
    IN  {Obj([k \in {j \in DOMAIN f : f[j] # None} |-> f[k]]) : f \in picks}

IdArrays == {Arr(s) : s \in SeqsUpTo({Str(h) : h \in IdStrings}, MaxRefs)}

MapEntities ==
    ObjectsOver([
        id |-> {None, Undef, Str(""), Str("i1"), Str("zz")},
        name |-> {None, Undef, Str("A")},
        ownerId |-> {None, Null, Str("i2"), Str("zz")} \cup IdArrays,
        sub |-> {None, Obj(EmptyMap), Obj([refId |-> Str("i1")]),
                 Obj([refId |-> Undef, note |-> Str("A")])}])

MapPaths ==
    {<<>>, <<<<"ownerId">>>>, <<<<"sub", "refId">>>>,
     <<<<"ownerId">>, <<"sub", "refId">>>>, <<<<"name">>>>}

MapInit ==
    /\ entity \in MapEntities
    /\ paths \in MapPaths
    /\ doc = None
    /\ back = None
    /\ mpc = "start"
    /\ CrudIdle
    /\ EmbedIdle

MapToDoc ==
    /\ mpc = "start"
    /\ doc' = toDoc(entity, paths)
    /\ mpc' = IF IsThrow(doc') THEN "threw" ELSE "mapped"
    /\ UNCHANGED <<entity, paths, back>>
    /\ UNCHANGED <<crudVars, embedVars>>

MapFromDoc ==
    /\ mpc = "mapped"
    /\ back' = fromDoc(doc, paths)
    /\ mpc' = "done"
    /\ UNCHANGED <<entity, paths, doc>>
    /\ UNCHANGED <<crudVars, embedVars>>

MapNext == MapToDoc \/ MapFromDoc

SpecMap == MapInit /\ [][MapNext]_vars

\* ------------------------------------------------------------------ CRUD runs
CrudProps ==
    {Undef} \cup
    ObjectsOver([
        id |-> {None, Str(""), Str("i1"), Str("zz")},
        name |-> {None, Undef, Str("A")},
        ownerId |-> {None, Str("i2")}])
    \cup {Obj([id |-> Str("i2"), name |-> Str("A"), extra |-> Str("x")]),
          Obj([extra |-> Str("x")])}
DeleteProps == {Undef, Obj(EmptyMap), Obj([id |-> Str("")]), Obj([id |-> Str("i1")]),
                Obj([id |-> Str("i2"), name |-> Str("A")]), Obj([id |-> Str("zz")])}
IdArrayArgs == {Arr(<<>>), Arr(<<Str("i2"), Str("i1")>>), Arr(<<Str("i1"), Str("zz")>>)}
IdArgs == {Undef, Str(""), Str("i1"), Str("i2"), Str("zz")}
ExistingArgs == {Undef, Obj(EmptyMap), Obj([id |-> Str("i1")]), Obj([id |-> Null]),
                 Obj([id |-> Str("i2"), name |-> Str("A")]), Obj([name |-> Str("A")])}
\* What a prior lookup hands to the function upsertOnePF returns.
ChainedArgs == {Undef, Obj([id |-> Str("i1")])}
UpdateArgs == {Undef, Obj(EmptyMap), Obj([name |-> Str("A")]), Obj([name |-> Undef]),
               Obj([id |-> Str("i2"), ownerId |-> Str("i2")])}
InsertOnlyArgs == {Undef, Obj([name |-> Str("B")]),
                   Obj([name |-> Str("B"), ownerId |-> Str("i2")])}

\* The identifiers the store may give a document inserted without one.
FreeIds == IdStrings \ DOMAIN store

CrudInit == MapIdle /\ CrudIdle /\ EmbedIdle

FindById ==
    \E id \in IdArgs :
        /\ op' = "findById"
        /\ args' = <<id>>
        /\ out' = findById(store, id)
        /\ UNCHANGED <<mapVars, embedVars>>

FindByIds ==
    \E ids \in IdArrayArgs :
        /\ op' = "findByIds"
        /\ args' = <<ids>>
        /\ out' = findByIds(store, ids)
        /\ UNCHANGED <<mapVars, embedVars>>

CreateOne ==
    \E props \in CrudProps, ok \in BOOLEAN, gen \in FreeIds :
        /\ op' = "createOne"
        /\ args' = <<props>>
        /\ out' = createOne(store, props, ok, gen)
        /\ UNCHANGED <<mapVars, embedVars>>

UpdateOne ==
    \E props \in CrudProps, ok \in BOOLEAN :
        /\ op' = "updateOne"
        /\ args' = <<props>>
        /\ out' = updateOne(store, props, ok)
        /\ UNCHANGED <<mapVars, embedVars>>

ReplaceOne ==
    \E props \in CrudProps, ok \in BOOLEAN :
        /\ op' = "replaceOne"
        /\ args' = <<props>>
        /\ out' = replaceOne(store, props, ok)
        /\ UNCHANGED <<mapVars, embedVars>>

UpsertOne ==
    \E existing \in ExistingArgs, updateProps \in UpdateArgs,
       insertOnlyProps \in InsertOnlyArgs, ok \in BOOLEAN, gen \in FreeIds :
        /\ op' = "upsertOne"
        /\ args' = <<existing, updateProps, insertOnlyProps>>
        /\ out' = upsertOne(store, existing, updateProps, insertOnlyProps, ok, gen)
        /\ UNCHANGED <<mapVars, embedVars>>

UpsertOnePF ==
    \E existing \in ChainedArgs, updateProps \in UpdateArgs,
       insertOnlyProps \in InsertOnlyArgs, ok \in BOOLEAN, gen \in FreeIds :
        /\ op' = "upsertOnePF"
        /\ args' = <<existing, updateProps, insertOnlyProps>>
        /\ out' = upsertOnePF(store, updateProps, insertOnlyProps, existing, ok, gen)
        /\ UNCHANGED <<mapVars, embedVars>>

DeleteOne ==
    \E props \in DeleteProps :
        /\ op' = "deleteOne"
        /\ args' = <<props>>
        /\ out' = deleteOne(store, props)
        /\ UNCHANGED <<mapVars, embedVars>>

DeleteById ==
    \E id \in IdArgs :
        /\ op' = "deleteById"
        /\ args' = <<id>>
        /\ out' = deleteById(store, id)
        /\ UNCHANGED <<mapVars, embedVars>>

Next ==
    \/ FindById
    \/ FindByIds
    \/ CreateOne
    \/ UpdateOne
    \/ ReplaceOne
    \/ UpsertOne
    \/ UpsertOnePF
    \/ DeleteOne
    \/ DeleteById

Spec == CrudInit /\ [][Next]_vars

\* ------------------------------------------------------------------ embed runs
\* The referenced collection: empty, or holding both identifiers.
RefStores ==
    {<<>>,
     [h \in IdStrings |->
         IF h = "i1" THEN Obj([_id |-> Oid("i1"), name |-> Str("A")])
         ELSE Obj([_id |-> Oid("i2"), ownerId |-> Oid("i1")])]}

EmbedRecs ==
    ObjectsOver([
        fooId |-> {None, Null, Str("i1"), Arr(<<Str("i2"), Str("i1")>>)},
        _embedded |-> {None, Obj([foo |-> Str("old"), bar |-> Str("x")])}])
EmbedRecSeqs == {Arr(s) : s \in SeqsUpTo(EmbedRecs, MaxRecs)}
EmbedTargets ==
    EmbedRecSeqs \cup
    ObjectsOver([
        fooId |-> {None, Str("i2")},
        items |-> {None, Null} \cup EmbedRecs \cup EmbedRecSeqs])

EmbedInit ==
    /\ MapIdle
    /\ op = "none" /\ args = <<>>
    /\ \E st \in RefStores : out = Outcome(st, <<>>, None, None)
    /\ target \in EmbedTargets
    /\ referencePath = <<"fooId">>
    /\ embedName \in {Null, Str("foo")}
    /\ objectPath \in {Null, Path(<<"items">>)}
    /\ slots = <<>> /\ lookups = <<>> /\ order = <<>> /\ ret = None
    /\ epc = "idle"

\* The call, up to the await of Promise.all: the early return, or every
\* record's callback run to its first await (its lookup issued).
EmbedCall ==
    /\ epc = "idle"
    /\ IF NothingAtObjectPath(objectPath, target)
       THEN /\ ret' = target
            /\ epc' = "done"
            /\ UNCHANGED <<slots, lookups>>
       ELSE LET recs == castArray(deepTargetOf(objectPath, target))
                started == startSlots(recs, referencePath)
                issued == SelectSeq([i \in 1..Len(recs) |-> i],
                                    LAMBDA i : started[i].st = "pending")
            IN  /\ slots' = started
                /\ lookups' = [j \in 1..Len(issued) |->
                                  [fn |-> lookupFn(Get(referencePath, recs[issued[j]])),
                                   arg |-> Get(referencePath, recs[issued[j]]),
                                   idx |-> issued[j]]]
                /\ epc' = "waiting"
                /\ UNCHANGED ret
    /\ UNCHANGED <<target, referencePath, embedName, objectPath, order>>
    /\ UNCHANGED <<mapVars, crudVars>>

\* The lookup of record i completes: the record with the resolution embedded.
LookupResolve(i) ==
    /\ epc \in {"waiting", "rejected"}
    /\ slots[i].st = "pending"
    /\ LET got == lookup(store, Get(referencePath, slots[i].rec))
       IN  /\ ~IsThrow(got)
           /\ slots' = [slots EXCEPT ![i] =
                  Slot(slots[i].rec, "resolved", got,
                       embedInto(slots[i].rec, embedKey(embedName, referencePath), got))]
    /\ order' = Append(order, i)
    /\ UNCHANGED <<target, referencePath, embedName, objectPath, lookups, ret, epc>>
    /\ UNCHANGED <<mapVars, crudVars>>

\* The lookup of record i fails (the store's error, passed on).
LookupReject(i) ==
    /\ epc \in {"waiting", "rejected"}
    /\ slots[i].st = "pending"
    /\ slots' = [slots EXCEPT ![i] = Slot(slots[i].rec, "rejected", None, None)]
    /\ order' = Append(order, i)
    /\ UNCHANGED <<target, referencePath, embedName, objectPath, lookups, ret, epc>>
    /\ UNCHANGED <<mapVars, crudVars>>

\* Promise.all is fulfilled: the call returns the reassembled target.
JoinResolve ==
    /\ epc = "waiting"
    /\ allFulfilled(slots)
    /\ ret' = reassemble(target, objectPath, valuesOf(slots, order))
    /\ epc' = "done"
    /\ UNCHANGED <<target, referencePath, embedName, objectPath, slots, lookups, order>>
    /\ UNCHANGED <<mapVars, crudVars>>

\* Promise.all is rejected: the call is rejected.
JoinReject ==
    /\ epc = "waiting"
    /\ anyRejected(slots)
    /\ ret' = Throw("store")
    /\ epc' = "rejected"
    /\ UNCHANGED <<target, referencePath, embedName, objectPath, slots, lookups, order>>
    /\ UNCHANGED <<mapVars, crudVars>>

EmbedNext ==
    \/ EmbedCall
    \/ \E i \in 1..Len(slots) : LookupResolve(i)
    \/ \E i \in 1..Len(slots) : LookupReject(i)
    \/ JoinResolve
    \/ JoinReject

SpecEmbed == EmbedInit /\ [][EmbedNext]_vars

\* The event loop runs the reaction of a settled Promise.all.
SpecEmbedFair ==
    EmbedInit /\ [][EmbedNext]_vars /\ WF_vars(JoinResolve) /\ WF_vars(JoinReject)

\* ------------------------------------------------------------------ C1
ValidId(x) == x.t = "str" /\ x.s \in IdStrings
ValidIdOrIds(x) ==
    \/ ValidId(x)
    \/ IsArray(x) /\ \A i \in 1..Len(x.seq) : ValidId(x.seq[i])
PathsHoldIds(r, p) ==
    /\ Prop(r, "id") = Undef \/ ValidId(Prop(r, "id"))
    /\ \A i \in 1..Len(p) : Get(p[i], r) = Undef \/ ValidIdOrIds(Get(p[i], r))

\* C1: when r.id and the value at every path of p is absent or a valid
\* identifier string (or a sequence of them), fromDoc(toDoc(r, p), p) is r
\* on every defined field: the same keys, the same values.
C1_RoundTrip ==
    PathsHoldIds(entity, paths)
        => /\ mpc # "threw"
           /\ mpc = "done" => back = OmitUndefined(entity)

C1_Witness ==
    /\ mpc = "done"
    /\ PathsHoldIds(entity, paths)
    /\ ValidId(Prop(entity, "id"))
    /\ Len(paths) = 2
    /\ IsArray(Prop(entity, "ownerId")) /\ Len(Prop(entity, "ownerId").seq) = 2
    /\ ValidId(Get(<<"sub", "refId">>, entity))
    /\ Prop(doc, "_id") = Oid("i1")
    /\ back = OmitUndefined(entity)

\* ------------------------------------------------------------------ C2
\* C2: the update body updateOne sends is a set-fields update holding
\* exactly the non-undefined, non-identifier fields of the mapped document:
\* neither the portable id nor the native primary key _id, and no field
\* that was not submitted.
C2_UpdateBodyOnlySubmittedFields ==
    op = "updateOne" =>
        \A i \in 1..Len(log) :
            log[i].fn = "update" =>
                LET mapped == EntityToDoc(clean(Default(args[1])))
                    fields == {k \in Keys(mapped) \ {"id", "_id"} : mapped.map[k] # Undef}
                IN  /\ Keys(log[i].body) = {"$set"}
                    /\ log[i].body.map["$set"] = Obj([k \in fields |-> mapped.map[k]])

\* The call of the spec's example: updateOne({id: X, name: "A"}).
C2_Witness ==
    /\ op = "updateOne"
    /\ args = <<Obj([id |-> Str("i1"), name |-> Str("A")])>>
    /\ Len(log) = 3 /\ log[2].fn = "update"

\* ------------------------------------------------------------------ C3
Validators == {"assertValid", "assertValidPartial"}
ValidatorOf(name) == IF name = "updateOne" THEN "assertValidPartial" ELSE "assertValid"

\* C3: in createOne, updateOne and replaceOne the validator (assertValid,
\* for updateOne assertValidPartial) is asked before any store call, and
\* when it rejects, the operation fails with the validation error and has
\* issued no store call at all.
C3_ValidationFirst ==
    op \in {"createOne", "updateOne", "replaceOne"} =>
        /\ \A i \in 1..Len(log) :
               log[i].fn \in Validators =>
                   /\ log[i].fn = ValidatorOf(op)
                   /\ ~log[i].ok => /\ result = Throw("validation")
                                    /\ StoreCalls(log) = {}
        /\ \A j \in StoreCalls(log) :
               \E i \in 1..(j - 1) : log[i].fn = ValidatorOf(op) /\ log[i].ok

\* A createOne of props that would have been inserted, rejected by the
\* validator, next to a collection that already holds a document.
C3_Witness ==
    /\ op = "createOne"
    /\ args = <<Obj([name |-> Str("A"), ownerId |-> Str("i2")])>>
    /\ Len(log) = 1 /\ log[1].fn = "assertValid" /\ ~log[1].ok
    /\ log[1].body = Obj([name |-> Str("A"), ownerId |-> Str("i2"), id |-> Str(FakeId)])
    /\ result = Throw("validation")
    /\ DOMAIN store # {}

\* ------------------------------------------------------------------ C4
\* C4: updateOne, replaceOne and deleteOne called with props whose id is
\* absent or empty fail with the missing-identifier error and issue no
\* store call.
C4_MissingIdentifier ==
    /\ op \in {"updateOne", "replaceOne", "deleteOne"}
    /\ Prop(Default(args[1]), "id") \in {Undef, Str("")}
    => /\ result = Throw("missing-id")
       /\ StoreCalls(log) = {}

\* deleteOne({}) on a collection that holds documents.
C4_Witness ==
    /\ op = "deleteOne"
    /\ args = <<Obj(EmptyMap)>>
    /\ result = Throw("missing-id")
    /\ log = <<>>
    /\ DOMAIN store = IdStrings

\* ------------------------------------------------------------------ C5
IsUpsert == op \in {"upsertOne", "upsertOnePF"}
UpsertExisting == Default(args[1])
UpsertUpdateProps == Default(args[2])
UpsertInsertOnlyProps == Default(args[3])
Issued(fn) == \E i \in 1..Len(log) : log[i].fn = fn

\* C5: upsertOne(existing, updateProps, insertOnlyProps), and the curried
\* upsertOnePF alike, does exactly one of: (a) existing.id defined and no
\* update props: returns existing, no store call; (b) existing.id defined
\* and update props: updateOne of the update props with id = existing.id,
\* no insert; (c) existing.id undefined: createOne of the insert-only props
\* overlaid by the update props (which win on every shared key), no update.
C5_UpsertDispatch ==
    IsUpsert =>
        LET e == UpsertExisting
            u == UpsertUpdateProps
            n == UpsertInsertOnlyProps
        IN  /\ Prop(e, "id") # Undef /\ Keys(u) = {}
                => result = e /\ log = <<>> /\ via = None
            /\ Prop(e, "id") # Undef /\ Keys(u) # {}
                => /\ via.fn = "updateOne"
                   /\ Keys(via.body) = Keys(u) \cup {"id"}
                   /\ \A k \in Keys(via.body) :
                          via.body.map[k] = IF k = "id" THEN e.map["id"] ELSE u.map[k]
                   /\ ~Issued("insert")
            /\ Prop(e, "id") = Undef
                => /\ via.fn = "createOne"
                   /\ Keys(via.body) = Keys(u) \cup Keys(n)
                   /\ \A k \in Keys(via.body) :
                          via.body.map[k] = IF k \in Keys(u) THEN u.map[k] ELSE n.map[k]
                   /\ ~Issued("update")

\* An upsert without an existing id whose update props and insert-only
\* props both name a field: the insert carries the update props' value.
C5_Witness ==
    /\ op = "upsertOnePF"
    /\ args = <<Undef, Obj([name |-> Str("A")]),
                Obj([name |-> Str("B"), ownerId |-> Str("i2")])>>
    /\ via.fn = "createOne"
    /\ Issued("insert")
    /\ Prop(result, "name") = Str("A")
    /\ Prop(result, "ownerId") = Str("i2")

\* ------------------------------------------------------------------ C7
\* C7: deleteById(id) fails and issues no remove when id is absent or
\* empty; for a valid identifier it issues exactly one remove, matching
\* that primary key only, and returns the store's acknowledgment.
C7_DeleteByIdRequiresId ==
    op = "deleteById" =>
        /\ args[1] \in {Undef, Str("")}
               => IsThrow(result) /\ ~Issued("remove")
        /\ ValidId(args[1])
               => /\ log = <<Call("remove", ById(Oid(args[1].s)), None, TRUE)>>
                  /\ result.t = "ack"

\* deleteById() with no identifier.
C7_Witness ==
    /\ op = "deleteById"
    /\ args = <<Undef>>
    /\ DOMAIN store # {}

\* ------------------------------------------------------------------ embed claims
\* The record holds a reference: a null or empty value is none.
HasReference(rec) == Truthy(Get(referencePath, rec))
LookedUp == {lookups[j].idx : j \in 1..Len(lookups)}
EmbedKeyClaimed == IF embedName = Null THEN referencePath[1] ELSE embedName.s
Resolution(reference) ==
    IF IsArray(reference) THEN findByIds(store, reference).result
    ELSE findById(store, reference).result

\* ------------------------------------------------------------------ C6
\* C6: a record in scope whose reference is present comes back with only
\* _embedded changed: _embedded[embedName, or referencePath without one]
\* holds the resolution (the findByIds list for a sequence, the findById
\* result or absent for a scalar), every other key of a pre-existing
\* _embedded is kept, the reference field and all other fields are as they
\* were. A record whose reference is absent is returned as it is, with no
\* lookup.
C6_OnlyEmbeddedChanges ==
    \A i \in 1..Len(slots) :
        LET rec == slots[i].rec
            val == slots[i].val
            old == IF Has(rec, "_embedded") THEN rec.map["_embedded"] ELSE Obj(EmptyMap)
        IN  /\ ~HasReference(rec)
                => slots[i].st = "plain" /\ val = rec /\ i \notin LookedUp
            /\ HasReference(rec) /\ slots[i].st = "resolved"
                => /\ Keys(val) = Keys(rec) \cup {"_embedded"}
                   /\ \A k \in Keys(rec) \ {"_embedded"} : val.map[k] = rec.map[k]
                   /\ Keys(val.map["_embedded"]) = Keys(old) \cup {EmbedKeyClaimed}
                   /\ \A k \in Keys(old) \ {EmbedKeyClaimed} :
                          val.map["_embedded"].map[k] = old.map[k]
                   /\ val.map["_embedded"].map[EmbedKeyClaimed]
                          = Resolution(Get(referencePath, rec))

\* A record with a pre-existing _embedded and a sequence reference, both of
\* whose entities are found.
C6_Witness ==
    /\ epc = "done"
    /\ Len(slots) = 2
    /\ slots[1].st = "resolved"
    /\ Has(slots[1].rec, "_embedded")
    /\ embedName = Str("foo")
    /\ IsArray(Get(referencePath, slots[1].rec))
    /\ Len(slots[1].got.seq) = 2
    /\ slots[1].val.map["_embedded"].map["bar"] = Str("x")
    /\ slots[2].st = "plain"

\* ------------------------------------------------------------------ C8
\* C8: with an objectPath at which target has no value, embedAsReference
\* returns target itself and issues no lookup.
C8_MissingObjectPathIdentity ==
    /\ epc \notin {"idle", "off"}
    /\ objectPath # Null
    /\ ~HasPath(objectPath.path, target)
    => /\ epc = "done"
       /\ ret = target
       /\ lookups = <<>>

\* A target that holds a reference of its own but nothing at objectPath.
C8_Witness ==
    /\ epc = "done"
    /\ objectPath = Path(<<"items">>)
    /\ ~Has(target, "items")
    /\ Prop(target, "fooId") = Str("i2")
    /\ DOMAIN store # {}
    /\ ret = target

\* ------------------------------------------------------------------ C9
\* C9: whenever objectPath is given and target has a value at it (whatever
\* the value, a present null included), that value and only that value is
\* processed (each element of a sequence, else the value as one record,
\* referencePath read relative to it), and the result is target with the
\* value at objectPath replaced by the processed value.
C9_ObjectPathValueProcessed ==
    /\ epc = "done"
    /\ objectPath # Null
    /\ HasPath(objectPath.path, target)
    => LET value == Get(objectPath.path, target)
           recs == castArray(value)
           vals == [i \in 1..Len(recs) |->
                       IF HasReference(recs[i])
                       THEN embedInto(recs[i], EmbedKeyClaimed,
                                      Resolution(Get(referencePath, recs[i])))
                       ELSE recs[i]]
           processed == IF IsArray(value) THEN Arr(vals) ELSE vals[1]
       IN  /\ ret = Set(objectPath.path, processed, target)
           /\ Len(lookups) = Cardinality({i \in 1..Len(recs) : HasReference(recs[i])})

\* objectPath names a field of target that is present and null.
C9_Witness ==
    /\ epc = "done"
    /\ objectPath = Path(<<"items">>)
    /\ Prop(target, "items") = Null /\ Has(target, "items")

\* ------------------------------------------------------------------ C10
InScope == castArray(deepTargetOf(objectPath, target))
Returned == IF objectPath = Null THEN ret ELSE Get(objectPath.path, ret)

C10_Safety ==
    /\ epc \in {"waiting", "rejected", "done"} /\ slots # <<>>
        => LookedUp = {i \in 1..Len(slots) : HasReference(slots[i].rec)}
    /\ epc = "done" /\ slots # <<>>
        => /\ \A i \in 1..Len(slots) : slots[i].st \in {"plain", "resolved"}
           /\ Len(order) = Len(lookups)
    /\ epc = "done" /\ slots # <<>> /\ IsArray(deepTargetOf(objectPath, target))
        => /\ IsArray(Returned)
           /\ Len(Returned.seq) = Len(InScope)
           /\ \A i \in 1..Len(InScope) :
                  /\ Returned.seq[i] = slots[i].val
                  /\ slots[i].rec = InScope[i]
                  /\ Prop(Returned.seq[i], "fooId") = Prop(InScope[i], "fooId")
    /\ anyRejected(slots)
        => /\ epc \in {"waiting", "rejected"}
           /\ ret = IF epc = "rejected" THEN Throw("store") ELSE None

\* C10: over a sequence of records, every lookup is issued by the call
\* itself, before any of them has completed; the call returns its result
\* only after every lookup has completed; whatever the completion order,
\* the result keeps the input order of the records; and once a lookup is
\* rejected the call is rejected (it is, eventually, and it never returns a
\* partly embedded result).
C10_FanOutJoin ==
    /\ []C10_Safety
    /\ (anyRejected(slots) ~> epc = "rejected")

\* Two lookups in flight at once, completed in the reverse of the input
\* order, the call returned.
C10_Witness ==
    /\ epc = "done"
    /\ Len(lookups) = 2
    /\ order = <<2, 1>>
    /\ IsArray(Returned)
    /\ Prop(InScope[1], "fooId") # Prop(InScope[2], "fooId")
==========================================================================
